---- MODULE Spec2Model ----
(***************************************************************************)
(* State-machine model of the lifecycle adapter createVueMicroApp of       *)
(* lib/microtsm-vue.ts (lines 94-245): the closure variable `app`, the     *)
(* handler handleInternalNavigation, the four lifecycle methods and the    *)
(* browser objects they read and write (document, customElements, window   *)
(* listeners, location, the router installed by the setupInstance hook).   *)
(*                                                                         *)
(* mount is an async function: it runs synchronously up to the await of    *)
(* line 206 (mountStart) and its continuation, lines 207-208, runs later   *)
(* (mountResume); any other operation may run in between.                  *)
(***************************************************************************)
EXTENDS Integers, Sequences, FiniteSets, TLC

\* ---------------------------------------------------------------- bounds
MaxInst == 2        \* createApp calls explored
MaxPending == 2     \* mount calls suspended at the await at one time
MaxOther == 2       \* containers synthesized by other adapters of the page

\* ------------------------------------------------------------ the values
NULL == 0           \* `app` when nothing is stored; instances are 1, 2, ...

NoEl == 0           \* no element (undefined / null)
PropEl == 1         \* the element the shell may pass as props.domElement
SelEl == 2          \* the element the configured selector matches when it is in the document
OptEl == 3          \* the element configured as opts.el
DocEls == {PropEl, SelEl, OptEl}
SynEl(i) == OptEl + i   \* the i-th <microtsm-standalone-app> created by mount

Undefined == "undefined"
PropNames == {Undefined, "", "billing"}

Keys == {"a", "b"}
Vals == {"v1", "v2"}
PropBags == UNION {[D -> Vals] : D \in SUBSET Keys}
NoGlobals == [k \in {} |-> "v1"]

PageOrigin == "https://shell"
Origins == {PageOrigin, "https://other"}
Paths == {<<"/a">>, <<"/b">>}
Urls == [origin : Origins, path : Paths]

HANDLER == "handleInternalNavigation"
TAG == "microtsm-standalone-app"

VARIABLES
    opts,         \* construction options: [el, setupInstance, installsRouter]
    standalone,   \* window.__MICROTSM_STANDALONE__
    constructed,  \* createVueMicroApp has returned
    app,          \* the closure variable `app` (line 98)
    insts,        \* the application instances created so far, by number
    pending,      \* mount calls suspended at the await of line 206
    listeners,    \* handlers registered for 'microtsm:navigation-event'
    attached,     \* elements of DocEls currently in the document
    containers,   \* the elements mount appended to the body, in order: the name
                  \* attribute of a synthesized container (older variants: the id
                  \* of a substitute div)
    registry,     \* the customElements.define calls made on the page, in order
    styles,       \* number of injected <style> rules
    location,     \* window.location, as a URL
    currentRoute, \* router.currentRoute.value.fullPath
    replaced,     \* router.replace calls made by the last step, in order
    last          \* the last operation: its name, arguments and outcome

vars == <<opts, standalone, constructed, app, insts, pending, listeners, attached,
          containers, registry, styles, location, currentRoute, replaced, last>>

\* --------------------------------------------------------- pure helpers

\* url.href: the origin followed by the path, as a sequence of tokens
Href(url) == <<url.origin>> \o url.path

\* String.prototype.replace(pattern, ''): the first occurrence of pattern is removed
RECURSIVE RemoveFirst(_, _)
RemoveFirst(s, tok) ==
    IF s = <<>> THEN <<>>
    ELSE IF Head(s) = tok THEN Tail(s)
    ELSE <<Head(s)>> \o RemoveFirst(Tail(s), tok)

\* Mutant: the origin is left in the target path
StripOrigin_Keeps(url) == Href(url)

\* to.href.replace(to.origin, '')
StripOrigin(url) == RemoveFirst(Href(url), url.origin)

\* Mutant: the source replaces the target instead of being merged into it
ObjectAssign_Replaces(target, source) == source

\* Object.assign(target, source)
ObjectAssign(target, source) ==
    [k \in (DOMAIN target) \cup (DOMAIN source) |->
        IF k \in DOMAIN source THEN source[k] ELSE target[k]]

\* createApp(rootComponent, props): a fresh, unattached instance
NewInstance ==
    [mountedOn |-> NoEl, isMounted |-> FALSE, detached |-> FALSE,
     router |-> FALSE, globalProperties |-> NoGlobals]

\* document.body.contains(el)
InDocument(el) ==
    \/ el \in attached
    \/ el > OptEl /\ el <= OptEl + Len(containers)

\* document.querySelector(opts.el)
QuerySelector == IF SelEl \in attached THEN SelEl ELSE NoEl

\* Mutant: the name given in props is ignored
MfeName_Default(props) == "default-mfe"

\* props.name ? props.name : 'default-mfe'
MfeName(props) == IF props.name \notin {Undefined, ""} THEN props.name ELSE "default-mfe"

EmptyProps == [domElement |-> NoEl, name |-> Undefined]
MountProps == [domElement : {NoEl, PropEl}, name : PropNames]

\* What the last step was: the operation, the props.domElement it was given, its
\* outcome and the mount target it resolved or attached to
Op(name, dom, result, el) ==
    [op |-> name, domElement |-> dom, result |-> result, mountEl |-> el]

\* The elements whose presence in the document mount looks at, given the options
Relevant(o) ==
    {PropEl} \cup (IF o.el = "string" THEN {SelEl} ELSE {})
             \cup (IF o.el = "HTMLElement" THEN {OptEl} ELSE {})

TypeOK ==
    /\ app \in 0..Len(insts)
    /\ Len(insts) <= MaxInst
    /\ listeners \subseteq {HANDLER}
    /\ attached \subseteq DocEls
    /\ constructed \in BOOLEAN

\* The state before createVueMicroApp is called, for a set of option records
InitFlag(optsSet, flags) ==
    /\ opts \in optsSet
    /\ standalone \in flags
    /\ constructed = FALSE
    /\ app = NULL
    /\ insts = <<>>
    /\ pending = {}
    /\ listeners = {}
    /\ containers = <<>>
    /\ registry = <<>>
    /\ styles = 0
    /\ location = [origin |-> PageOrigin, path |-> <<"/a">>]
    /\ currentRoute = <<"/a">>
    /\ replaced = <<>>
    /\ last = Op("none", NoEl, "ok", NoEl)

\* The state before construction on a page that has not set the standalone flag
InitWith(optsSet) == InitFlag(optsSet, {FALSE})

\* Every configuration: opts.el absent, a selector or an element; no hook, a
\* synchronous or a deferred one, which installs a router or does not
AllOpts ==
    {o \in [el : {"undefined", "string", "HTMLElement"},
            setupInstance : {"undefined", "sync", "async"},
            installsRouter : BOOLEAN] :
        o.setupInstance = "undefined" => ~o.installsRouter}

Init ==
    /\ InitWith(AllOpts)
    /\ attached \in SUBSET Relevant(opts)

\* Mutant: a missing selector target is replaced by a substitute element
ResolveTarget_Substitutes(props) ==
    IF props.domElement # NoEl /\ InDocument(props.domElement)
    THEN [branch |-> "domElement", el |-> props.domElement]
    ELSE IF opts.el # "undefined"
    THEN IF opts.el = "string"
         THEN IF QuerySelector = NoEl
              THEN [branch |-> "synthesize", el |-> SynEl(Len(containers) + 1)]
              ELSE [branch |-> "selector", el |-> QuerySelector]
         ELSE [branch |-> "element", el |-> OptEl]
    ELSE [branch |-> "synthesize", el |-> SynEl(Len(containers) + 1)]

\* Mutant: props.domElement is used whether or not it is in the document
ResolveTarget_NoAttachCheck(props) ==
    IF props.domElement # NoEl
    THEN [branch |-> "domElement", el |-> props.domElement]
    ELSE IF opts.el # "undefined"
    THEN IF opts.el = "string"
         THEN IF QuerySelector = NoEl
              THEN [branch |-> "error", el |-> NoEl]
              ELSE [branch |-> "selector", el |-> QuerySelector]
         ELSE [branch |-> "element", el |-> OptEl]
    ELSE [branch |-> "synthesize", el |-> SynEl(Len(containers) + 1)]

\* Mutant: the target of the previous mount is retained and used again
ResolveTarget_Retained(props) ==
    IF Len(insts) > 0 /\ insts[Len(insts)].mountedOn # NoEl
    THEN [branch |-> "domElement", el |-> insts[Len(insts)].mountedOn]
    ELSE IF props.domElement # NoEl /\ InDocument(props.domElement)
    THEN [branch |-> "domElement", el |-> props.domElement]
    ELSE IF opts.el # "undefined"
    THEN IF opts.el = "string"
         THEN IF QuerySelector = NoEl
              THEN [branch |-> "error", el |-> NoEl]
              ELSE [branch |-> "selector", el |-> QuerySelector]
         ELSE [branch |-> "element", el |-> OptEl]
    ELSE [branch |-> "synthesize", el |-> SynEl(Len(containers) + 1)]

\* Lines 141-179 of mount: which branch decides the mount target, and the element
ResolveTarget(props) ==
    IF props.domElement # NoEl /\ InDocument(props.domElement)
    THEN [branch |-> "domElement", el |-> props.domElement]
    ELSE IF opts.el # "undefined"
    THEN IF opts.el = "string"
         THEN IF QuerySelector = NoEl
              THEN [branch |-> "error", el |-> NoEl]
              ELSE [branch |-> "selector", el |-> QuerySelector]
         ELSE [branch |-> "element", el |-> OptEl]
    ELSE [branch |-> "synthesize", el |-> SynEl(Len(containers) + 1)]

\* Mutant: the registration is left out
AddEventListener_Skips(h) == listeners

\* window.addEventListener(type, fn): registering the same function again adds nothing
AddEventListener(fn) == listeners \cup {fn}

\* Mutant: the handler is not found among the listeners and stays registered
RemoveEventListener_Keeps(fn) == listeners

\* window.removeEventListener(type, fn)
RemoveEventListener(fn) == listeners \ {fn}

\* customElements.get(tag): whether the tag has been defined
CustomElementsGet(tag) == \E i \in 1..Len(registry) : registry[i] = tag

\* Mutant: the element and its style are defined on every call
Synthesize_NoGuard(props) ==
    /\ registry' = Append(registry, TAG)
    /\ styles' = styles + 1
    /\ containers' = Append(containers, MfeName(props))

\* Lines 159-178: define the custom element and its style once, append a container
Synthesize(props) ==
    /\ registry' = IF CustomElementsGet(TAG) THEN registry ELSE Append(registry, TAG)
    /\ styles' = IF CustomElementsGet(TAG) THEN styles ELSE styles + 1
    /\ containers' = Append(containers, MfeName(props))

\* The hook as invoked at line 206: a synchronous hook has run when the call
\* returns (and has installed the router when it is one that does)
HookOnCall(inst) ==
    IF opts.setupInstance = "sync" /\ opts.installsRouter
    THEN [inst EXCEPT !.router = TRUE]
    ELSE inst

\* mount(props) from its entry to the await of line 206 (lines 140-206).
\* hookThrows: the synchronous hook throws during this call.
MountBody(opname, props, hookThrows) ==
    LET r == ResolveTarget(props)
        id == Len(insts) + 1
    IN  IF r.branch = "error"
        THEN /\ last' = Op(opname, props.domElement, "configError", NoEl)
             /\ UNCHANGED <<app, insts, pending, listeners, containers, registry, styles>>
        ELSE /\ Len(insts) < MaxInst
             /\ Cardinality(pending) < MaxPending
             /\ IF r.branch = "synthesize"
                THEN Synthesize(props)
                ELSE UNCHANGED <<containers, registry, styles>>
             /\ app' = id
             /\ listeners' = AddEventListener(HANDLER)
             /\ IF hookThrows
                THEN /\ insts' = Append(insts, NewInstance)
                     /\ pending' = pending
                     /\ last' = Op(opname, props.domElement, "hookError", r.el)
                ELSE /\ insts' = Append(insts, HookOnCall(NewInstance))
                     /\ pending' = pending \cup {[inst |-> id, mountEl |-> r.el]}
                     /\ last' = Op(opname, props.domElement, "pending", r.el)

\* Mutant: construction mounts whatever the flag says
Construct_Always ==
    /\ ~constructed
    /\ constructed' = TRUE
    /\ replaced' = <<>>
    /\ \E hookThrows \in BOOLEAN :
          /\ hookThrows => opts.setupInstance = "sync"
          /\ MountBody("construct", EmptyProps, hookThrows)
    /\ UNCHANGED <<opts, standalone, attached, location, currentRoute>>

\* createVueMicroApp(rootComponent, opts), lines 94-245: the standalone check
Construct ==
    /\ ~constructed
    /\ constructed' = TRUE
    /\ replaced' = <<>>
    /\ IF standalone
       THEN \E hookThrows \in BOOLEAN :
               /\ hookThrows => opts.setupInstance = "sync"
               /\ MountBody("construct", EmptyProps, hookThrows)
       ELSE /\ last' = Op("construct", NoEl, "ok", NoEl)
            /\ UNCHANGED <<app, insts, pending, listeners, containers, registry, styles>>
    /\ UNCHANGED <<opts, standalone, attached, location, currentRoute>>

\* Mutant: bootstrap drops the stored instance
bootstrap_Clears ==
    /\ constructed
    /\ app' = NULL
    /\ last' = Op("bootstrap", NoEl, "ok", NoEl)
    /\ replaced' = <<>>
    /\ UNCHANGED <<opts, standalone, constructed, insts, pending, listeners,
                   attached, containers, registry, styles, location, currentRoute>>

\* bootstrap(), lines 128-130
bootstrap ==
    /\ constructed
    /\ last' = Op("bootstrap", NoEl, "ok", NoEl)
    /\ replaced' = <<>>
    /\ UNCHANGED <<opts, standalone, constructed, app, insts, pending, listeners,
                   attached, containers, registry, styles, location, currentRoute>>

\* mount(props) up to its await, lines 140-206
mountStart(props, hookThrows) ==
    /\ constructed
    /\ hookThrows => opts.setupInstance = "sync"
    /\ MountBody("mount", props, hookThrows)
    /\ replaced' = <<>>
    /\ UNCHANGED <<opts, standalone, constructed, attached, location, currentRoute>>

\* router.replace(to): the router resolves `to` and makes it the current route
RouterReplace(to) ==
    /\ replaced' = <<to>>
    /\ currentRoute' = to

\* Mutant: the resync is left out
SetRouterHistoryLocation_Skips(is) ==
    /\ replaced' = <<>>
    /\ currentRoute' = currentRoute

\* setRouterHistoryLocation, lines 196-201, on the instances as they are now
SetRouterHistoryLocation(is) ==
    IF app # NULL /\ is[app].router
    THEN RouterReplace(StripOrigin(location))
    ELSE /\ replaced' = <<>>
         /\ currentRoute' = currentRoute

\* instance.mount(el) of the framework: attaches an instance not yet mounted
AppMount(is, el) ==
    IF is[app].isMounted
    THEN is
    ELSE [is EXCEPT ![app].isMounted = TRUE, ![app].mountedOn = el]

\* Mutant: a continuation that finds the reference cleared stores its own
\* call's instance again and attaches it
mountResume_RestoresInstance(c, ok) ==
    /\ c \in pending
    /\ ~ok => opts.setupInstance = "async"
    /\ pending' = pending \ {c}
    /\ IF ~ok
       THEN /\ last' = Op("resume", NoEl, "hookError", c.mountEl)
            /\ replaced' = <<>>
            /\ UNCHANGED <<app, insts, currentRoute>>
       ELSE LET is == IF opts.setupInstance = "async" /\ opts.installsRouter
                      THEN [insts EXCEPT ![c.inst].router = TRUE]
                      ELSE insts
                a == IF app = NULL THEN c.inst ELSE app
            IN  /\ app' = a
                /\ IF is[a].router
                   THEN RouterReplace(StripOrigin(location))
                   ELSE replaced' = <<>> /\ currentRoute' = currentRoute
                /\ insts' = IF is[a].isMounted
                            THEN is
                            ELSE [is EXCEPT ![a].isMounted = TRUE, ![a].mountedOn = c.mountEl]
                /\ last' = Op("resume", NoEl,
                              IF is[a].isMounted THEN "alreadyMounted" ELSE "ok",
                              c.mountEl)
    /\ UNCHANGED <<opts, standalone, constructed, listeners, attached,
                   containers, registry, styles, location>>

\* Mutant: the continuation runs but its call stays suspended
mountResume_KeepsPending(c, ok) ==
    /\ c \in pending
    /\ ~ok => opts.setupInstance = "async"
    /\ pending' = pending
    /\ IF ~ok
       THEN /\ last' = Op("resume", NoEl, "hookError", c.mountEl)
            /\ replaced' = <<>>
            /\ UNCHANGED <<insts, currentRoute>>
       ELSE LET is == IF opts.setupInstance = "async" /\ opts.installsRouter
                      THEN [insts EXCEPT ![c.inst].router = TRUE]
                      ELSE insts
            IN  /\ SetRouterHistoryLocation(is)
                /\ IF app = NULL
                   THEN /\ insts' = is
                        /\ last' = Op("resume", NoEl, "typeError", c.mountEl)
                   ELSE /\ insts' = AppMount(is, c.mountEl)
                        /\ last' = Op("resume", NoEl,
                                      IF is[app].isMounted THEN "alreadyMounted" ELSE "ok",
                                      c.mountEl)
    /\ UNCHANGED <<opts, standalone, constructed, app, listeners, attached,
                   containers, registry, styles, location>>

\* Mutant: the continuation attaches the instance its own call created
mountResume_OwnInstance(c, ok) ==
    /\ c \in pending
    /\ ~ok => opts.setupInstance = "async"
    /\ pending' = pending \ {c}
    /\ IF ~ok
       THEN /\ last' = Op("resume", NoEl, "hookError", c.mountEl)
            /\ replaced' = <<>>
            /\ UNCHANGED <<insts, currentRoute>>
       ELSE LET is == IF opts.setupInstance = "async" /\ opts.installsRouter
                      THEN [insts EXCEPT ![c.inst].router = TRUE]
                      ELSE insts
            IN  /\ SetRouterHistoryLocation(is)
                /\ insts' = [is EXCEPT ![c.inst].isMounted = TRUE,
                                       ![c.inst].mountedOn =
                                           IF is[c.inst].isMounted THEN @ ELSE c.mountEl]
                /\ last' = Op("resume", NoEl,
                              IF is[c.inst].isMounted THEN "alreadyMounted" ELSE "ok",
                              c.mountEl)
    /\ UNCHANGED <<opts, standalone, constructed, app, listeners, attached,
                   containers, registry, styles, location>>

\* Mutant: the continuation attaches although the hook's result is rejected
mountResume_AttachesOnFailure(c, ok) ==
    /\ c \in pending
    /\ ~ok => opts.setupInstance = "async"
    /\ pending' = pending \ {c}
    /\ insts' = IF app = NULL THEN insts ELSE AppMount(insts, c.mountEl)
    /\ last' = Op("resume", NoEl, IF ok THEN "ok" ELSE "hookError", c.mountEl)
    /\ replaced' = <<>>
    /\ UNCHANGED <<opts, standalone, constructed, app, listeners, attached,
                   containers, registry, styles, location, currentRoute>>

\* The hook's deferred result settles and the continuation of mount runs, lines 206-208.
\* ok: the hook's result is fulfilled (a missing or synchronous hook always is).
mountResume(c, ok) ==
    /\ c \in pending
    /\ ~ok => opts.setupInstance = "async"
    /\ pending' = pending \ {c}
    /\ IF ~ok
       THEN /\ last' = Op("resume", NoEl, "hookError", c.mountEl)
            /\ replaced' = <<>>
            /\ UNCHANGED <<insts, currentRoute>>
       ELSE LET is == IF opts.setupInstance = "async" /\ opts.installsRouter
                      THEN [insts EXCEPT ![c.inst].router = TRUE]
                      ELSE insts
            IN  /\ SetRouterHistoryLocation(is)
                /\ IF app = NULL
                   THEN /\ insts' = is
                        /\ last' = Op("resume", NoEl, "typeError", c.mountEl)
                   ELSE /\ insts' = AppMount(is, c.mountEl)
                        /\ last' = Op("resume", NoEl,
                                      IF is[app].isMounted THEN "alreadyMounted" ELSE "ok",
                                      c.mountEl)
    /\ UNCHANGED <<opts, standalone, constructed, app, listeners, attached,
                   containers, registry, styles, location>>

\* Mutant: update puts a fresh instance, configured with the merged bag, in place
\* of the stored one
update_Recreates(newProps) ==
    /\ constructed
    /\ IF app # NULL
       THEN insts' = [insts EXCEPT ![app] =
                        [NewInstance EXCEPT !.globalProperties =
                            ObjectAssign(insts[app].globalProperties, newProps)]]
       ELSE insts' = insts
    /\ last' = Op("update", NoEl, "ok", NoEl)
    /\ replaced' = <<>>
    /\ UNCHANGED <<opts, standalone, constructed, app, pending, listeners, attached,
                   containers, registry, styles, location, currentRoute>>

\* update(newProps), lines 218-222
update(newProps) ==
    /\ constructed
    /\ IF app # NULL
       THEN insts' = [insts EXCEPT ![app].globalProperties = ObjectAssign(@, newProps)]
       ELSE insts' = insts
    /\ last' = Op("update", NoEl, "ok", NoEl)
    /\ replaced' = <<>>
    /\ UNCHANGED <<opts, standalone, constructed, app, pending, listeners, attached,
                   containers, registry, styles, location, currentRoute>>

\* Mutant: the instance is left attached
AppUnmount_Skips(is, i) == is

\* instance.unmount() of the framework: detaches a mounted instance, else only warns
AppUnmount(is, i) ==
    IF is[i].isMounted THEN [is EXCEPT ![i].detached = TRUE] ELSE is

\* Mutant: unmount also removes the container its instance was attached to
unmount_RemovesContainer ==
    /\ constructed
    /\ IF app # NULL
       THEN /\ listeners' = RemoveEventListener(HANDLER)
            /\ insts' = AppUnmount(insts, app)
            /\ app' = NULL
            /\ containers' = IF insts[app].mountedOn = SynEl(Len(containers))
                             THEN SubSeq(containers, 1, Len(containers) - 1)
                             ELSE containers
            /\ last' = Op("unmount", NoEl, "cleared", NoEl)
       ELSE /\ last' = Op("unmount", NoEl, "noop", NoEl)
            /\ UNCHANGED <<listeners, insts, app, containers>>
    /\ replaced' = <<>>
    /\ UNCHANGED <<opts, standalone, constructed, pending, attached,
                   registry, styles, location, currentRoute>>

\* Mutant: no `if (app)` guard, so unmount fails on the null reference
unmount_NoGuard ==
    /\ constructed
    /\ IF app # NULL
       THEN /\ listeners' = RemoveEventListener(HANDLER)
            /\ insts' = AppUnmount(insts, app)
            /\ app' = NULL
            /\ last' = Op("unmount", NoEl, "cleared", NoEl)
       ELSE /\ last' = Op("unmount", NoEl, "typeError", NoEl)
            /\ UNCHANGED <<listeners, insts, app>>
    /\ replaced' = <<>>
    /\ UNCHANGED <<opts, standalone, constructed, pending, attached, containers,
                   registry, styles, location, currentRoute>>

\* unmount(), lines 230-236
unmount ==
    /\ constructed
    /\ IF app # NULL
       THEN /\ listeners' = RemoveEventListener(HANDLER)
            /\ insts' = AppUnmount(insts, app)
            /\ app' = NULL
            /\ last' = Op("unmount", NoEl, "cleared", NoEl)
       ELSE /\ last' = Op("unmount", NoEl, "noop", NoEl)
            /\ UNCHANGED <<listeners, insts, app>>
    /\ replaced' = <<>>
    /\ UNCHANGED <<opts, standalone, constructed, pending, attached, containers,
                   registry, styles, location, currentRoute>>

\* Mutant: the handler checks the instance but not that it has a router
HandleInternalNavigation_NoRouterCheck(to) ==
    IF app # NULL
    THEN IF currentRoute # StripOrigin(to)
         THEN RouterReplace(StripOrigin(to))
         ELSE /\ replaced' = <<>>
              /\ currentRoute' = currentRoute
    ELSE /\ replaced' = <<>>
         /\ currentRoute' = currentRoute

\* handleInternalNavigation({detail}), lines 109-120
HandleInternalNavigation(to) ==
    IF app # NULL /\ insts[app].router
    THEN IF currentRoute # StripOrigin(to)
         THEN RouterReplace(StripOrigin(to))
         ELSE /\ replaced' = <<>>
              /\ currentRoute' = currentRoute
    ELSE /\ replaced' = <<>>
         /\ currentRoute' = currentRoute

\* The shell navigates to `to` and broadcasts 'microtsm:navigation-event'
navigationEvent(to) ==
    /\ location' = IF to.origin = PageOrigin THEN to ELSE location
    /\ IF HANDLER \in listeners
       THEN HandleInternalNavigation(to)
       ELSE /\ replaced' = <<>>
            /\ currentRoute' = currentRoute
    /\ last' = Op("navigation", NoEl, IF HANDLER \in listeners THEN "handled" ELSE "unheard", NoEl)
    /\ UNCHANGED <<opts, standalone, constructed, app, insts, pending, listeners,
                   attached, containers, registry, styles>>

\* The page adds an element to the document or removes it
domChange(el) ==
    /\ el \in Relevant(opts)
    /\ attached' = IF el \in attached THEN attached \ {el} ELSE attached \cup {el}
    /\ last' = Op("dom", NoEl, "ok", NoEl)
    /\ replaced' = <<>>
    /\ UNCHANGED <<opts, standalone, constructed, app, insts, pending, listeners,
                   containers, registry, styles, location, currentRoute>>

\* Another adapter of the same page, configured without a target, takes the
\* synthesize branch of its own mount (lines 157-179)
otherAdapterMount(props) ==
    /\ Len(containers) < MaxInst + MaxOther
    /\ Len(containers) - Len(insts) < MaxOther
    /\ Synthesize(props)
    /\ last' = Op("other", NoEl, "ok", SynEl(Len(containers) + 1))
    /\ replaced' = <<>>
    /\ UNCHANGED <<opts, standalone, constructed, app, insts, pending, listeners,
                   attached, location, currentRoute>>

\* The page assigns window.__MICROTSM_STANDALONE__ after the adapter was constructed
setStandalone(flag) ==
    /\ constructed
    /\ flag # standalone
    /\ standalone' = flag
    /\ last' = Op("flag", NoEl, "ok", NoEl)
    /\ replaced' = <<>>
    /\ UNCHANGED <<opts, constructed, app, insts, pending, listeners, attached,
                   containers, registry, styles, location, currentRoute>>

OneBag == [k \in {"a"} |-> "v1"]

\* Mount-target resolution against a changing document
Next ==
    \/ Construct
    \/ bootstrap
    \/ \E props \in MountProps, hookThrows \in BOOLEAN : mountStart(props, hookThrows)
    \/ \E c \in pending, ok \in BOOLEAN : mountResume(c, ok)
    \/ unmount
    \/ \E el \in DocEls : domChange(el)

Spec == Init /\ [][Next]_vars

\* Navigation events against the lifecycle, in a document that holds every element
InitNav ==
    /\ InitWith(AllOpts)
    /\ attached = Relevant(opts)

NextNav ==
    \/ Construct
    \/ bootstrap
    \/ \E hookThrows \in BOOLEAN : mountStart(EmptyProps, hookThrows)
    \/ \E c \in pending, ok \in BOOLEAN : mountResume(c, ok)
    \/ update(OneBag)
    \/ unmount
    \/ \E to \in Urls : navigationEvent(to)

SpecNav == InitNav /\ [][NextNav]_vars

\* Property updates against the lifecycle, for an adapter with no configured
\* target and a deferred hook (which installs no router)
UpdateOpts ==
    {o \in AllOpts : o.el = "undefined" /\ o.setupInstance = "async" /\ ~o.installsRouter}

InitUpdate ==
    /\ InitWith(UpdateOpts)
    /\ attached = Relevant(opts)

NextUpdate ==
    \/ Construct
    \/ bootstrap
    \/ \E hookThrows \in BOOLEAN : mountStart(EmptyProps, hookThrows)
    \/ \E c \in pending, ok \in BOOLEAN : mountResume(c, ok)
    \/ \E newProps \in PropBags : update(newProps)
    \/ unmount

SpecUpdate == InitUpdate /\ [][NextUpdate]_vars

\* Synthesized containers: an adapter with no configured target, each kind of
\* hook, beside other adapters of the page that synthesize theirs
SynthOpts == {o \in AllOpts : o.el = "undefined" /\ ~o.installsRouter}

InitSynth ==
    /\ InitWith(SynthOpts)
    /\ attached \in SUBSET Relevant(opts)

NextSynth ==
    \/ Construct
    \/ \E props \in MountProps, hookThrows \in BOOLEAN : mountStart(props, hookThrows)
    \/ \E c \in pending, ok \in BOOLEAN : mountResume(c, ok)
    \/ unmount
    \/ otherAdapterMount(EmptyProps)

SpecSynth == InitSynth /\ [][NextSynth]_vars

\* Construction on a page that has or has not set the standalone flag, and
\* that may change the flag afterwards
InitStandalone ==
    /\ InitFlag(AllOpts, BOOLEAN)
    /\ attached \in SUBSET Relevant(opts)

NextStandalone ==
    \/ Construct
    \/ \E flag \in BOOLEAN : setStandalone(flag)
    \/ \E hookThrows \in BOOLEAN : mountStart(EmptyProps, hookThrows)
    \/ \E c \in pending, ok \in BOOLEAN : mountResume(c, ok)
    \/ unmount

SpecStandalone == InitStandalone /\ [][NextStandalone]_vars

\* Settling of mount calls: every hook that was started settles in the end and
\* the continuation queued behind it runs (the event loop drains its queue)
LiveOpts == {o \in AllOpts : ~o.installsRouter}

InitLive ==
    /\ InitWith(LiveOpts)
    /\ attached \in SUBSET Relevant(opts)

NextLive ==
    \/ Construct
    \/ \E hookThrows \in BOOLEAN : mountStart(EmptyProps, hookThrows)
    \/ \E c \in pending, ok \in BOOLEAN : mountResume(c, ok)
    \/ unmount

SpecLive ==
    /\ InitLive
    /\ [][NextLive]_vars
    /\ WF_vars(\E c \in pending, ok \in BOOLEAN : mountResume(c, ok))

\* ------------------------------------------- the older adapter variants
\* createVueMicroApp(app, opts) of lines 351-482: the caller passes the one
\* application instance, opts.el is a selector and opts.handleInstance the hook.

\* Selectors as token sequences: '#app', '#app#x' and '.app'
Selectors == {<<"#", "app">>, <<"#", "app", "#", "x">>, <<".", "app">>}

\* The i-th substitute <div> appended to the body
DivEl(i) == OptEl + i

\* Mutant: every '#' is removed from the selector
OlderDivId_StripsAll(sel) == SelectSeq(sel, LAMBDA t : t # "#")

\* opts.el.replace(/^#/, ""), line 389: one leading '#' is removed
OlderDivId(sel) == IF sel # <<>> /\ Head(sel) = "#" THEN Tail(sel) ELSE sel

\* Whether an element with this id is matched by the selector: only '#name' can
\* match by id, and only an id that is that one name
MatchesId(sel, id) == Len(sel) = 2 /\ sel[1] = "#" /\ id = <<sel[2]>>

\* document.querySelector(opts.el), line 385: the page's own element, else the
\* first appended div the selector matches, else null
OlderQuerySelector ==
    IF SelEl \in attached THEN SelEl
    ELSE LET hits == {i \in 1..Len(containers) : MatchesId(opts.selector, containers[i])}
         IN  IF hits = {} THEN NoEl
             ELSE DivEl(CHOOSE i \in hits : \A j \in hits : i <= j)

\* The state after the older createVueMicroApp(app, opts) returned
InitOlder ==
    /\ opts \in [el : {"string"}, selector : Selectors,
                  setupInstance : {"undefined", "async"}, installsRouter : {FALSE}]
    /\ standalone = FALSE
    /\ constructed = TRUE
    /\ app = 1
    /\ insts = <<NewInstance>>
    /\ pending = {}
    /\ listeners = {}
    /\ attached \in SUBSET Relevant(opts)
    /\ containers = <<>>
    /\ registry = <<>>
    /\ styles = 0
    /\ location = [origin |-> PageOrigin, path |-> <<"/a">>]
    /\ currentRoute = <<"/a">>
    /\ replaced = <<>>
    /\ last = Op("none", NoEl, "ok", NoEl)

\* mount(props) of the older variant, lines 373-436, up to the hook's settling.
\* hookThrows: handleInstance throws during the call.
olderMount(props, hookThrows) ==
    /\ hookThrows => opts.setupInstance # "undefined"
    /\ Cardinality(pending) < MaxPending
    /\ LET q == OlderQuerySelector
           substitute == props.domElement = NoEl /\ q = NoEl
           mountEl == IF props.domElement # NoEl THEN props.domElement
                      ELSE IF q # NoEl THEN q
                      ELSE DivEl(Len(containers) + 1)
       IN  /\ substitute => Len(containers) < MaxInst
           /\ containers' = IF substitute
                            THEN Append(containers, OlderDivId(opts.selector))
                            ELSE containers
           /\ IF opts.setupInstance = "undefined"
              THEN /\ insts' = AppMount(insts, mountEl)
                   /\ pending' = pending
                   /\ last' = Op("olderMount", props.domElement,
                                 IF insts[app].isMounted THEN "alreadyMounted" ELSE "ok",
                                 mountEl)
              ELSE IF hookThrows
              THEN /\ last' = Op("olderMount", props.domElement, "hookError", mountEl)
                   /\ UNCHANGED <<insts, pending>>
              ELSE /\ pending' = pending \cup {[inst |-> app, mountEl |-> mountEl]}
                   /\ insts' = insts
                   /\ last' = Op("olderMount", props.domElement, "pending", mountEl)
    /\ replaced' = <<>>
    /\ UNCHANGED <<opts, standalone, constructed, app, listeners, attached,
                   registry, styles, location, currentRoute>>

\* The promise of handleInstance settles, lines 425-430
olderResume(c, ok) ==
    /\ c \in pending
    /\ pending' = pending \ {c}
    /\ IF ok
       THEN /\ insts' = AppMount(insts, c.mountEl)
            /\ last' = Op("olderResume", NoEl,
                          IF insts[app].isMounted THEN "alreadyMounted" ELSE "ok",
                          c.mountEl)
       ELSE /\ insts' = insts
            /\ last' = Op("olderResume", NoEl, "hookError", c.mountEl)
    /\ replaced' = <<>>
    /\ UNCHANGED <<opts, standalone, constructed, app, listeners, attached,
                   containers, registry, styles, location, currentRoute>>

\* unmount() of the older variant, lines 461-468: the instance stays stored
olderUnmount ==
    /\ insts' = AppUnmount(insts, app)
    /\ last' = Op("olderUnmount", NoEl, "ok", NoEl)
    /\ replaced' = <<>>
    /\ UNCHANGED <<opts, standalone, constructed, app, pending, listeners, attached,
                   containers, registry, styles, location, currentRoute>>

NextOlder ==
    \/ \E props \in MountProps, hookThrows \in BOOLEAN : olderMount(props, hookThrows)
    \/ \E c \in pending, ok \in BOOLEAN : olderResume(c, ok)
    \/ olderUnmount
    \/ \E el \in DocEls : domChange(el)

SpecOlder == InitOlder /\ [][NextOlder]_vars

\* ------------------------------------------------------------ the claims

\* The adapter's own state: everything but the page's location and document
adapter == <<app, insts, pending, listeners, containers, registry, styles, currentRoute>>

\* The globally visible configuration surface of the stored instance
Globals == insts[app].globalProperties

\* C1: once a mount call has failed with its hook's failure, the adapter holds
\* no stored instance.
C1_HookFailureLeavesNoInstance ==
    last.result = "hookError" => app = NULL

\* C2: after unmount() returns the navigation handler is not registered, whatever
\* came before, and a navigation event broadcast while nothing has been mounted
\* since is not heard and triggers no replace-navigation.
C2_UnmountRemovesListener ==
    /\ [](last.op = "unmount" => HANDLER \notin listeners)
    /\ [][(app = NULL /\ last'.op = "navigation")
            => (last'.result = "unheard" /\ replaced' = <<>>)]_vars

C2_Witness ==
    /\ last.op = "navigation"
    /\ last.result = "unheard"
    /\ app = NULL
    /\ \E i \in 1..Len(insts) : insts[i].detached

\* C3: unmount() on a successfully mounted instance detaches that instance and
\* clears the stored reference, and an update issued while the reference is
\* cleared changes nothing.
C3_UnmountDetachesAndClears ==
    /\ [][(last'.op = "unmount" /\ app # NULL /\ insts[app].isMounted)
            => (insts'[app].detached /\ app' = NULL)]_vars
    /\ [][(last'.op = "update" /\ app = NULL) => UNCHANGED adapter]_vars

C3_Witness ==
    /\ last.op = "update"
    /\ app = NULL
    /\ \E i \in 1..Len(insts) : insts[i].detached /\ insts[i].globalProperties = NoGlobals

\* C4: with a selector that matches nothing and no attached props.domElement,
\* a mount call fails with the configuration error, stores no instance, creates
\* no element and registers no listener; while no call has got past the target
\* resolution nothing is stored.
C4_MissingSelectorFails ==
    /\ [][(/\ last'.op = "mount"
           /\ opts.el = "string"
           /\ SelEl \notin attached
           /\ (last'.domElement = NoEl \/ last'.domElement \notin attached))
            => (/\ last'.result = "configError"
                /\ UNCHANGED adapter)]_vars
    /\ [](Len(insts) = 0 => (app = NULL /\ listeners = {} /\ containers = <<>>))

C4_Witness ==
    /\ last.op = "mount"
    /\ last.result = "configError"
    /\ opts.el = "string"
    /\ last.domElement = PropEl
    /\ app = NULL
    /\ listeners = {}

\* C5: a navigation event heard while the stored instance has a router issues no
\* replace-navigation when its target path is the router's current path, and
\* exactly one, to that target path, when it differs.
C5_ReplaceOnlyOnDifferentPath ==
    [][\A to \in Urls :
        (/\ HANDLER \in listeners
         /\ app # NULL
         /\ insts[app].router
         /\ navigationEvent(to))
        => IF to.path = currentRoute
           THEN replaced' = <<>> /\ currentRoute' = currentRoute
           ELSE replaced' = <<to.path>> /\ currentRoute' = to.path]_vars

C5_Witness ==
    /\ last.op = "navigation"
    /\ last.result = "handled"
    /\ app # NULL
    /\ insts[app].router
    /\ replaced = << <<"/b">> >>

\* C6: a navigation event is ignored when no instance is stored or the stored
\* instance has no router: no replace-navigation, no error, no change of the
\* adapter's state.
C6_NoRouterIgnoresEvent ==
    [][(/\ last'.op = "navigation"
        /\ (app = NULL \/ ~insts[app].router))
        => (/\ replaced' = <<>>
            /\ last'.result \in {"handled", "unheard"}
            /\ UNCHANGED adapter)]_vars

C6_Witness ==
    /\ last.op = "navigation"
    /\ last.result = "handled"
    /\ app # NULL
    /\ ~insts[app].router
    /\ location.path # currentRoute

\* C7: update(p) on a mounted instance makes every pair of p readable from the
\* instance's global properties, overriding earlier values of the same keys and
\* leaving the other keys as they were.
C7_UpdateMerges ==
    [][\A p \in PropBags :
        (app # NULL /\ insts[app].isMounted /\ update(p))
        => (/\ app' = app
            /\ DOMAIN insts'[app].globalProperties = (DOMAIN Globals) \cup (DOMAIN p)
            /\ \A k \in DOMAIN p : insts'[app].globalProperties[k] = p[k]
            /\ \A k \in (DOMAIN Globals) \ (DOMAIN p) :
                   insts'[app].globalProperties[k] = Globals[k])]_vars

C7_Witness ==
    /\ last.op = "update"
    /\ app # NULL
    /\ insts[app].isMounted
    /\ DOMAIN Globals = {"a", "b"}
    /\ Globals["a"] = "v2"
    /\ Globals["b"] = "v1"

\* C8: update and unmount called while no instance is stored do not fail and
\* change nothing.
C8_NothingMountedNoOp ==
    [][(app = NULL /\ last'.op \in {"update", "unmount"})
        => (/\ last'.result \in {"ok", "noop"}
            /\ UNCHANGED adapter
            /\ UNCHANGED <<attached, location>>)]_vars

C8_Witness ==
    /\ last.op = "unmount"
    /\ last.result = "noop"
    /\ Len(insts) > 0

\* C9: the mount target is props.domElement when supplied and in the document;
\* else the element the selector finds, or failure; else the configured element;
\* else a newly synthesized container. A detached props.domElement is never used.
C9_TargetPriority ==
    [][last'.op = "mount" =>
        LET d == last'.domElement
            t == last'.mountEl
            failed == last'.result = "configError"
        IN  /\ IF d # NoEl /\ d \in attached
               THEN ~failed /\ t = d
               ELSE IF opts.el = "string"
               THEN IF SelEl \in attached THEN ~failed /\ t = SelEl ELSE failed
               ELSE IF opts.el = "HTMLElement"
               THEN ~failed /\ t = OptEl
               ELSE /\ ~failed
                    /\ Len(containers') = Len(containers) + 1
                    /\ t = SynEl(Len(containers'))
            /\ (d # NoEl /\ d \notin attached) => t # d
            /\ ~failed => \/ last'.result = "hookError"
                           \/ \E c \in pending' \ pending : c.mountEl = t]_vars

C9_Witness ==
    /\ last.op = "mount"
    /\ last.domElement = PropEl
    /\ PropEl \notin attached
    /\ last.mountEl = SelEl

\* C10: the element handed to the framework's attach operation is a concrete
\* element that is in the document at that moment.
C10_AttachTargetInDocument ==
    (last.op = "resume" /\ last.result = "ok")
        => (last.mountEl # NoEl /\ InDocument(last.mountEl))

\* C11: with no configured el and no attached props.domElement, a mount call adds
\* exactly one container to the body, named props.name when that is a non-empty
\* string and 'default-mfe' otherwise, and that container is the element the
\* call attaches the instance to.
C11_SynthesizedContainer ==
    /\ [][\A props \in MountProps, hookThrows \in BOOLEAN :
            (/\ opts.el = "undefined"
             /\ (props.domElement = NoEl \/ props.domElement \notin attached)
             /\ mountStart(props, hookThrows))
            => (/\ Len(containers') = Len(containers) + 1
                /\ SubSeq(containers', 1, Len(containers)) = containers
                /\ containers'[Len(containers')] =
                      (IF props.name \in {"billing"} THEN props.name ELSE "default-mfe")
                /\ last'.mountEl = SynEl(Len(containers'))
                /\ hookThrows \/ [inst |-> app', mountEl |-> last'.mountEl] \in pending')]_vars
    /\ [][\A c \in pending :
            (/\ opts.el = "undefined"
             /\ c.mountEl \notin DocEls
             /\ mountResume(c, TRUE)
             /\ last'.result = "ok")
            => (/\ insts'[app].isMounted
                /\ insts'[app].mountedOn = c.mountEl
                /\ c.mountEl \in {SynEl(i) : i \in 1..Len(containers)})]_vars

C11_Witness ==
    /\ last.op = "resume"
    /\ last.result = "ok"
    /\ opts.el = "undefined"
    /\ Len(containers) = 2
    /\ containers[2] = "billing"
    /\ insts[app].mountedOn = SynEl(2)

\* C12: however many mount calls synthesize a container, on this adapter or on
\* others of the page, the custom element is defined at most once and its style
\* rule is injected at most once.
C12_DefinedOnce ==
    /\ Len(registry) <= 1
    /\ styles <= 1
    /\ (containers # <<>>) => (registry = <<TAG>> /\ styles = 1)

C12_Witness ==
    /\ Len(insts) = 2
    /\ Len(containers) = 4
    /\ last.op = "mount"
    /\ registry = <<TAG>>
    /\ styles = 1

\* The instances attached to the document and not yet detached
Alive == {i \in 1..Len(insts) : insts[i].isMounted /\ ~insts[i].detached}

\* C13: at most one instance created by the adapter is alive at any time, after
\* any sequence of mount and unmount calls, mount twice without an unmount
\* in between included.
C13_AtMostOneAlive == Cardinality(Alive) <= 1

\* C14: every successful mount, the first and each remount, issues exactly one
\* replace-navigation to the current location with the origin stripped when the
\* instance has a router, and none when it has not; the part of mount before the
\* hook issues none.
C14_ResyncOnMount ==
    /\ [][(last'.op = "resume" /\ last'.result \in {"ok", "alreadyMounted"})
            => /\ replaced' = IF insts'[app'].router THEN <<location.path>> ELSE <<>>
               /\ insts'[app'].router => currentRoute' = location.path
               /\ insts'[app'].isMounted]_vars
    /\ [][last'.op \in {"mount", "construct"} => replaced' = <<>>]_vars

C14_Witness ==
    /\ last.op = "resume"
    /\ last.result = "ok"
    /\ app = 2
    /\ insts[1].detached
    /\ insts[2].router
    /\ location.path = <<"/b">>
    /\ replaced = << <<"/b">> >>

\* C15: within a mount call the navigation listener is registered only after
\* the hook has completed and the instance has been attached: the listener
\* appears only in the step that attaches.
C15_ListenerAfterAttach ==
    [][(HANDLER \notin listeners /\ HANDLER \in listeners')
         => (last'.op = "resume" /\ last'.result = "ok" /\ insts'[app'].isMounted)]_vars

\* C16: the stored instance reference changes only in a mount call that succeeds
\* and in unmount; a mount awaiting its hook and a mount that fails leave it.
C16_ReferenceWriters ==
    [][app' # app
         => \/ last'.op = "resume" /\ last'.result = "ok"
            \/ last'.op = "unmount"]_vars

\* C17: construction with the standalone flag set starts exactly one mount with
\* no arguments, by the path every mount takes; construction with the flag
\* unset starts none, and setting the flag afterwards changes nothing and
\* starts nothing.
C17_StandaloneAtConstruction ==
    /\ [][(~constructed /\ constructed')
            => /\ last'.op = "construct"
               /\ last'.domElement = NoEl
               /\ IF ~standalone
                  THEN last'.result = "ok" /\ UNCHANGED adapter
                  ELSE IF opts.el = "string" /\ SelEl \notin attached
                  THEN last'.result = "configError" /\ UNCHANGED adapter
                  ELSE /\ Len(insts') = 1
                       /\ app' = 1
                       /\ HANDLER \in listeners'
                       /\ Cardinality(pending') <= 1
                       /\ last'.result \in {"pending", "hookError"}
                       /\ last'.result = "pending"
                            => pending' = {[inst |-> 1, mountEl |-> last'.mountEl]}
                       /\ containers' =
                            IF opts.el = "undefined" THEN <<"default-mfe">> ELSE <<>>
                       /\ last'.mountEl = CASE opts.el = "undefined" -> SynEl(1)
                                            [] opts.el = "string" -> SelEl
                                            [] OTHER -> OptEl]_vars
    /\ [][last'.op = "flag" => (constructed /\ UNCHANGED <<adapter, constructed>>)]_vars
    /\ [][Len(insts') > Len(insts)
            => \/ last'.op = "mount"
               \/ last'.op = "construct" /\ standalone /\ ~constructed]_vars

C17_Witness ==
    /\ last.op = "construct"
    /\ standalone
    /\ app = 1
    /\ containers = <<"default-mfe">>
    /\ pending = {[inst |-> 1, mountEl |-> SynEl(1)]}

\* C18: update never replaces or recreates the instance: the stored reference,
\* every instance's attachment and the listener registration are the same
\* before and after; only the global properties of the stored instance change.
C18_UpdateKeepsInstance ==
    [][last'.op = "update"
         => /\ app' = app
            /\ listeners' = listeners
            /\ pending' = pending
            /\ Len(insts') = Len(insts)
            /\ \A i \in 1..Len(insts) :
                 /\ insts'[i] = [insts[i] EXCEPT !.globalProperties =
                                                    insts'[i].globalProperties]
                 /\ i # app => insts'[i] = insts[i]
            /\ UNCHANGED <<containers, registry, styles, attached>>]_vars

C18_Witness ==
    /\ last.op = "update"
    /\ app # NULL
    /\ insts[app].isMounted
    /\ insts[app].mountedOn = SynEl(1)
    /\ HANDLER \in listeners
    /\ Globals # NoGlobals

\* C19: bootstrap succeeds in every lifecycle state, any number of times, and
\* changes nothing: the stored instance, the instances, the listener
\* registration and the document are as before.
C19_BootstrapNoOp ==
    /\ [](constructed => ENABLED bootstrap)
    /\ [][last'.op = "bootstrap"
            => /\ last'.result = "ok"
               /\ UNCHANGED <<adapter, attached, location>>]_vars

C19_Witness ==
    /\ last.op = "bootstrap"
    /\ app # NULL
    /\ insts[1].isMounted
    /\ pending # {}

\* C20: a mount call attaches only after its hook has completed successfully:
\* an instance becomes attached only in the continuation of a call whose hook
\* result is fulfilled; the part of the call before the hook's completion
\* attaches nothing, and neither does a call whose hook threw or was rejected.
C20_AttachAfterHook ==
    /\ [][(\E i \in 1..Len(insts') :
              /\ insts'[i].isMounted
              /\ i > Len(insts) \/ ~insts[i].isMounted)
            => /\ last'.op = "resume"
               /\ last'.result = "ok"
               /\ \E c \in pending : pending' = pending \ {c} /\ c.mountEl = last'.mountEl]_vars
    /\ [][last'.result \in {"hookError", "pending"}
            => \A i \in 1..Len(insts') :
                 insts'[i].isMounted => (i <= Len(insts) /\ insts[i].isMounted)]_vars

C20_Witness ==
    /\ last.op = "resume"
    /\ last.result = "hookError"
    /\ app # NULL
    /\ ~insts[app].isMounted
    /\ Alive = {}

\* C21: when a second mount call starts while the first awaits its hook, the
\* calls share the one instance slot: the second call's instance takes the
\* slot, the first call's instance is never attached, and whichever of the two
\* continuations resumes first attaches the second call's instance to the
\* target that continuation's own call resolved.
C21_OverlappingMounts ==
    /\ [][(last'.op = "mount" /\ last'.result \in {"pending", "hookError"})
            => (app' = Len(insts') /\ app' # app)]_vars
    /\ [][\A i \in 1..Len(insts) :
            (app # i /\ ~insts[i].isMounted) => (app' # i /\ ~insts'[i].isMounted)]_vars
    /\ [][\A c1 \in pending, c2 \in pending, c \in pending :
            (/\ c1.inst < c2.inst
             /\ c2.inst = app
             /\ ~insts[c1.inst].isMounted
             /\ ~insts[c2.inst].isMounted
             /\ c \in {c1, c2}
             /\ mountResume(c, TRUE))
            => (/\ last'.result = "ok"
                /\ insts'[c2.inst].isMounted
                /\ insts'[c2.inst].mountedOn = c.mountEl
                /\ ~insts'[c1.inst].isMounted)]_vars

C21_Witness ==
    /\ last.op = "resume"
    /\ last.result = "ok"
    /\ app = 2
    /\ ~insts[1].isMounted
    /\ insts[2].isMounted
    /\ \E c \in pending : c.inst = 2 /\ c.mountEl # insts[2].mountedOn

\* C22: when unmount has cleared the reference while a mount call awaits its
\* hook, the call fails once the hook settles, whatever the hook's outcome: no
\* instance is attached, no route resync is issued, the reference stays
\* cleared and the navigation listener stays unregistered.
C22_UnmountDuringMount ==
    [][(last'.op = "resume" /\ app = NULL)
         => /\ last'.result \in {"typeError", "hookError"}
            /\ \A i \in 1..Len(insts) : insts'[i].isMounted = insts[i].isMounted
            /\ Len(insts') = Len(insts)
            /\ replaced' = <<>>
            /\ currentRoute' = currentRoute
            /\ app' = NULL
            /\ HANDLER \notin listeners'
            /\ listeners' = listeners]_vars

C22_Witness ==
    /\ last.op = "resume"
    /\ last.result = "typeError"
    /\ app = NULL
    /\ Len(insts) = 1
    /\ insts[1].router
    /\ ~insts[1].isMounted
    /\ HANDLER \notin listeners

\* C23: whenever control is back in the event loop, the navigation listener is
\* registered exactly when the stored instance reference is non-empty, after
\* any interleaving of mount, update, unmount, navigation and hook outcomes.
C23_ListenerIffStored == (HANDLER \in listeners) <=> (app # NULL)

C23_Witness ==
    /\ last.op = "resume"
    /\ last.result = "hookError"
    /\ app = 2
    /\ insts[1].detached
    /\ HANDLER \in listeners

\* C24: the lifecycle is repeatable. An unmount that ends a complete cycle (the
\* stored instance is the one attached instance and no mount is suspended)
\* leaves the adapter unmounted: no stored instance, no attached instance, no
\* listener. The next mount creates a fresh instance, distinct from every
\* earlier one, and resolves its target anew from that call's props and the
\* document as it then is.
C24_RepeatableLifecycle ==
    /\ [][(last'.op = "unmount" /\ Alive = {app} /\ pending = {})
            => /\ last'.result = "cleared"
               /\ app' = NULL
               /\ Alive' = {}
               /\ listeners' = {}]_vars
    /\ [][(last'.op = "mount" /\ app = NULL /\ Alive = {} /\ pending = {}
             /\ last'.result # "configError")
            => /\ app' = Len(insts) + 1
               /\ Len(insts') = Len(insts) + 1
               /\ SubSeq(insts', 1, Len(insts)) = insts
               /\ ~insts'[app'].isMounted
               /\ ~insts'[app'].detached
               /\ insts'[app'].mountedOn = NoEl
               /\ insts'[app'].globalProperties = NoGlobals
               /\ last'.mountEl =
                    IF last'.domElement # NoEl /\ last'.domElement \in attached
                    THEN last'.domElement
                    ELSE CASE opts.el = "string" -> SelEl
                           [] opts.el = "HTMLElement" -> OptEl
                           [] OTHER -> SynEl(Len(containers) + 1)]_vars

C24_Witness ==
    /\ last.op = "mount"
    /\ last.result = "pending"
    /\ app = 2
    /\ insts[1].isMounted
    /\ insts[1].detached
    /\ Alive = {}
    /\ last.mountEl # insts[1].mountedOn

\* C25: unmount never removes a synthesized container. For an adapter with no
\* configured target that is mounted with no domElement, every mount call takes
\* the synthesize branch and creates one instance: the body holds as many
\* containers as there were such calls, however many unmounts came in between,
\* and no step takes a container away.
C25_ContainersStay ==
    /\ [](Len(containers) = Len(insts))
    /\ [][last'.op = "unmount" => containers' = containers]_vars
    /\ [][/\ Len(containers') >= Len(containers)
          /\ SubSeq(containers', 1, Len(containers)) = containers]_vars

C25_Witness ==
    /\ last.op = "unmount"
    /\ last.result = "cleared"
    /\ Len(insts) = 2
    /\ insts[1].detached
    /\ insts[2].detached
    /\ containers = <<"default-mfe", "default-mfe">>

\* The records a suspended mount call can leave: its instance and its target
PendingRecords ==
    [inst : 1..MaxInst, mountEl : DocEls \cup {SynEl(i) : i \in 1..MaxInst}]

\* A mount call that is suspended at its hook settles in the end
MountSettles == \A c \in PendingRecords : (c \in pending) ~> (c \notin pending)

C27_OlderSubstituteDiv ==
    /\ [][(last'.op = "olderMount" /\ last'.domElement = NoEl /\ OlderQuerySelector = NoEl)
            => /\ last'.result # "configError"
               /\ containers' = Append(containers,
                     IF opts.selector[1] = "#"
                     THEN SubSeq(opts.selector, 2, Len(opts.selector))
                     ELSE opts.selector)
               /\ last'.mountEl = DivEl(Len(containers'))
               /\ opts.setupInstance = "undefined"
                    => /\ last'.result \in {"ok", "alreadyMounted"}
                       /\ insts'[app].isMounted
                       /\ ~insts[app].isMounted => insts'[app].mountedOn = last'.mountEl
               /\ last'.result = "pending"
                    => [inst |-> app, mountEl |-> last'.mountEl] \in pending']_vars
    /\ [][(last'.op = "olderResume" /\ last'.result = "ok")
            => (insts'[app].isMounted /\ insts'[app].mountedOn = last'.mountEl)]_vars

C27_Witness ==
    /\ last.op = "olderResume"
    /\ last.result = "ok"
    /\ opts.selector = <<"#", "app", "#", "x">>
    /\ containers = << <<"app", "#", "x">> >>
    /\ insts[app].isMounted
    /\ insts[app].mountedOn = DivEl(1)
====
